---- MODULE Spec2Model ----
(***************************************************************************)
(* Instrumented string matching: the KMP pipeline (computeLPSWithSteps,    *)
(* kmpSearchWithSteps, kmpAlgorithm) and the Rabin-Karp pipeline           *)
(* (computePatternHashWithSteps, computeH, rabinKarpSearchWithSteps,       *)
(* rabinKarpAlgorithm) together with the POST /api/rabin-karp/execute      *)
(* route that feeds the latter.                                            *)
(*                                                                         *)
(* Strings are sequences of UTF-16 code units.  Numbers are JavaScript     *)
(* Numbers: IEEE-754 doubles.  Every number the hash code handles is an    *)
(* integer or NaN, so a Number is modelled as a sign and a magnitude kept  *)
(* as little-endian limbs, rounded to 53 significant bits after every      *)
(* multiplication, addition and subtraction (round to nearest, ties to     *)
(* even); the remainder operator % is exact, as fmod is.                   *)
(***************************************************************************)
EXTENDS Integers, Sequences, FiniteSets, TLC

----------------------------------------------------------------------------
(* Natural-number magnitudes: little-endian limbs, no leading zero limb.   *)

LimbBits == 15
Radix == 2 ^ LimbBits
MantissaBits == 53

RECURSIVE NNorm(_)
NNorm(s) ==
  IF s = <<>> THEN <<>>
  ELSE IF s[Len(s)] = 0 THEN NNorm(SubSeq(s, 1, Len(s) - 1))
  ELSE s

RECURSIVE NFromInt(_)
NFromInt(k) ==
  IF k = 0 THEN <<>> ELSE <<k % Radix>> \o NFromInt(k \div Radix)

RECURSIVE NCmpFrom(_, _, _)
NCmpFrom(a, b, i) ==
  IF i = 0 THEN 0
  ELSE IF a[i] < b[i] THEN -1
  ELSE IF a[i] > b[i] THEN 1
  ELSE NCmpFrom(a, b, i - 1)

NCmp(a, b) ==
  IF Len(a) < Len(b) THEN -1
  ELSE IF Len(a) > Len(b) THEN 1
  ELSE NCmpFrom(a, b, Len(a))

NLimb(a, i) == IF i <= Len(a) THEN a[i] ELSE 0

RECURSIVE NAddFrom(_, _, _, _)
NAddFrom(a, b, i, carry) ==
  IF i > Len(a) /\ i > Len(b)
  THEN (IF carry = 0 THEN <<>> ELSE <<carry>>)
  ELSE <<(NLimb(a, i) + NLimb(b, i) + carry) % Radix>>
       \o NAddFrom(a, b, i + 1, (NLimb(a, i) + NLimb(b, i) + carry) \div Radix)

NAdd(a, b) == NAddFrom(a, b, 1, 0)

RECURSIVE NSubFrom(_, _, _, _)
NSubFrom(a, b, i, borrow) ==
  IF i > Len(a) THEN <<>>
  ELSE <<(a[i] - NLimb(b, i) - borrow) % Radix>>
       \o NSubFrom(a, b, i + 1, IF a[i] - NLimb(b, i) - borrow < 0 THEN 1 ELSE 0)

\* a - b for a >= b
NSub(a, b) == NNorm(NSubFrom(a, b, 1, 0))

RECURSIVE NMulLimbFrom(_, _, _, _)
NMulLimbFrom(a, k, i, carry) ==
  IF i > Len(a)
  THEN (IF carry = 0 THEN <<>> ELSE <<carry>>)
  ELSE <<(a[i] * k + carry) % Radix>>
       \o NMulLimbFrom(a, k, i + 1, (a[i] * k + carry) \div Radix)

RECURSIVE NMul(_, _)
NMul(a, b) ==
  IF a = <<>> \/ b = <<>> THEN <<>>
  ELSE NNorm(NAdd(NMulLimbFrom(a, b[1], 1, 0), <<0>> \o NMul(a, Tail(b))))

NModStep(r, b) == IF NCmp(r, b) >= 0 THEN NSub(r, b) ELSE r

\* a mod b for b > 0 and a < Radix * b, by doubling the divisor
RECURSIVE NModNear(_, _)
NModNear(a, b) ==
  IF NCmp(a, b) < 0 THEN a ELSE NModStep(NModNear(a, NAdd(b, b)), b)

\* (a[1..i] + Radix^i * r) mod b for r < b: one limb of long division a time
RECURSIVE NModFrom(_, _, _, _)
NModFrom(a, b, i, r) ==
  IF i = 0 THEN r
  ELSE NModFrom(a, b, i - 1, NModNear(NNorm(<<a[i]>> \o r), b))

\* a mod b for b > 0
NMod(a, b) == NModFrom(a, b, Len(a), <<>>)

RECURSIVE BitsOf(_)
BitsOf(k) == IF k = 0 THEN 0 ELSE 1 + BitsOf(k \div 2)

NBitLen(a) ==
  IF a = <<>> THEN 0 ELSE LimbBits * (Len(a) - 1) + BitsOf(a[Len(a)])

NPow2(e) == [i \in 1..(e \div LimbBits) |-> 0] \o <<2 ^ (e % LimbBits)>>

\* a mod 2^s
NLowBits(a, s) ==
  NNorm([i \in 1..(IF Len(a) <= s \div LimbBits THEN Len(a) ELSE s \div LimbBits + 1) |->
           IF i <= s \div LimbBits THEN a[i] ELSE a[i] % (2 ^ (s % LimbBits))])

NRoundUp(a, low, s) ==
  \/ NCmp(low, NPow2(s - 1)) > 0
  \/ /\ NCmp(low, NPow2(s - 1)) = 0
     /\ NLowBits(a, s + 1) # low

NRoundAt(a, low, s) ==
  IF NRoundUp(a, low, s) THEN NAdd(NSub(a, low), NPow2(s)) ELSE NSub(a, low)

\* the double nearest to the integer a (ties to even)
NRound(a) ==
  IF NBitLen(a) <= MantissaBits THEN a
  ELSE NRoundAt(a, NLowBits(a, NBitLen(a) - MantissaBits), NBitLen(a) - MantissaBits)

----------------------------------------------------------------------------
(* JavaScript Numbers holding an integer or NaN.  Zero is kept unsigned:   *)
(* -0 and +0 are === and behave alike under *, +, - and % here.            *)

NaN == [nan |-> TRUE, neg |-> FALSE, mag |-> <<>>]

JsNum(k) ==
  [nan |-> FALSE, neg |-> k < 0, mag |-> NFromInt(IF k < 0 THEN -k ELSE k)]

JsSigned(neg, mag) == [nan |-> FALSE, neg |-> neg /\ mag # <<>>, mag |-> mag]

JsMul(a, b) ==
  IF a.nan \/ b.nan THEN NaN
  ELSE JsSigned(a.neg # b.neg, NRound(NMul(a.mag, b.mag)))

JsAdd(a, b) ==
  IF a.nan \/ b.nan THEN NaN
  ELSE IF a.neg = b.neg THEN JsSigned(a.neg, NRound(NAdd(a.mag, b.mag)))
  ELSE IF NCmp(a.mag, b.mag) >= 0 THEN JsSigned(a.neg, NRound(NSub(a.mag, b.mag)))
  ELSE JsSigned(b.neg, NRound(NSub(b.mag, a.mag)))

JsSub(a, b) ==
  IF b.nan THEN NaN ELSE JsAdd(a, [b EXCEPT !.neg = ~b.neg])

\* a % b: NaN for a zero divisor, otherwise the sign of the dividend
JsRem(a, b) ==
  IF a.nan \/ b.nan \/ b.mag = <<>> THEN NaN
  ELSE JsSigned(a.neg, NMod(a.mag, b.mag))

\* a === b
JsStrictEq(a, b) == ~a.nan /\ ~b.nan /\ a = b

\* a < b
JsLess(a, b) ==
  /\ ~a.nan /\ ~b.nan
  /\ IF a.neg # b.neg THEN a.neg
     ELSE IF a.neg THEN NCmp(a.mag, b.mag) > 0
     ELSE NCmp(a.mag, b.mag) < 0

----------------------------------------------------------------------------
(* Bounds and input domains                                                *)

MaxTextLen == 4
MaxPatternLen == 3
MaxLpsLen == 6
MaxRouteLen == 2

\* code units of "A" and "B"
Alphabet == {65, 66}

\* the value undefined where a string is expected; code units are >= 0
Undefined == <<-1>>

\* what indexing past the end of a string or an array yields
UndefinedElem == -1

Strings(maxLen) == UNION {[1..k -> Alphabet] : k \in 0..maxLen}

DEFAULT_BASE == 256
DEFAULT_MODULO == 101

\* An argument that is expected to be a number: undefined, an integer, or
\* a number with a fractional part (val is then its integer part).
UndefinedArg == [kind |-> "undefined", val |-> NaN]
IntArg(k) == [kind |-> "integer", val |-> JsNum(k)]
FractionArg(k) == [kind |-> "fraction", val |-> JsNum(k)]

BigBase == 2 ^ 24
BigModulo == BigBase + 1

HugeBase == 2 ^ 27
HugeModulo == HugeBase + 1

\* (base, mod) pairs handed to rabinKarpAlgorithm
HashArgs ==
  ({UndefinedArg, IntArg(1), IntArg(2)} \X {UndefinedArg, IntArg(1), IntArg(3)})
  \cup {<<IntArg(BigBase), IntArg(BigModulo)>>,
        <<IntArg(HugeBase), IntArg(HugeModulo)>>,
        <<IntArg(0), IntArg(3)>>, <<IntArg(2), IntArg(0)>>,
        <<IntArg(-2), IntArg(3)>>, <<IntArg(2), IntArg(-3)>>}

\* base and modulo fields of the body posted to /api/rabin-karp/execute
RouteArgs ==
  {UndefinedArg, IntArg(0), IntArg(-2), IntArg(2), IntArg(3), FractionArg(2)}

----------------------------------------------------------------------------
(* State                                                                   *)

VARIABLES
  entry,            \* which entry point this run exercises
  text, pattern,    \* the strings passed in
  baseArg, modArg,  \* the hash parameters passed in
  pc,               \* position of the running call
  lps, length, lpsI, lpsSteps,                      \* computeLPSWithSteps
  lpsResult,                                        \* its return value
  kmpI, kmpJ, kmpMatches, kmpSteps, comparisons,    \* kmpSearchWithSteps
  kmpResult,                                        \* outcome of kmpAlgorithm
  base, mod,                                        \* rabinKarpAlgorithm's parameters
  hash, hashI, hashSteps, patternHash,              \* computePatternHashWithSteps
  h, textHash, rkI, rkMatches, rkSteps,             \* rabinKarpSearchWithSteps
  hashComparisons, charComparisons,
  rkResult,                                         \* outcome of rabinKarpAlgorithm
  response                                          \* what the route answered

inputVars == <<entry, text, pattern, baseArg, modArg>>
lpsVars == <<lps, length, lpsI, lpsSteps, lpsResult>>
kmpVars == <<kmpI, kmpJ, kmpMatches, kmpSteps, comparisons>>
hashVars == <<base, mod, hash, hashI, hashSteps, patternHash>>
rkVars == <<h, textHash, rkI, rkMatches, rkSteps, hashComparisons, charComparisons>>
kmpSide == <<lpsVars, kmpVars, kmpResult>>
rkSide == <<hashVars, rkVars, rkResult, response>>
vars == <<inputVars, pc, kmpSide, rkSide>>

Pending == [status |-> "pending"]
Thrown(msg) == [status |-> "error", message |-> msg]

\* s[i] for a zero-based index i
At(s, i) == IF i \in 0..(Len(s) - 1) THEN s[i + 1] ELSE UndefinedElem

\* !s for a string argument
Falsy(s) == s = Undefined \/ s = <<>>

Init ==
  /\ \/ /\ entry = "algorithms"
        /\ text \in Strings(MaxTextLen) \cup {Undefined}
        /\ pattern \in Strings(MaxPatternLen) \cup {Undefined}
        /\ \E a \in HashArgs : baseArg = a[1] /\ modArg = a[2]
     \/ /\ entry = "computeLPS"
        /\ text = Undefined
        /\ pattern \in Strings(MaxLpsLen)
        /\ baseArg = UndefinedArg /\ modArg = UndefinedArg
     \/ /\ entry = "route"
        /\ text \in Strings(MaxRouteLen) \cup {Undefined}
        /\ pattern \in Strings(MaxRouteLen) \cup {Undefined}
        /\ baseArg \in RouteArgs /\ modArg \in RouteArgs
  /\ pc = "idle"
  /\ lps = <<>> /\ length = 0 /\ lpsI = 0 /\ lpsSteps = <<>>
  /\ lpsResult = Pending
  /\ kmpI = 0 /\ kmpJ = 0 /\ kmpMatches = <<>> /\ kmpSteps = <<>>
  /\ comparisons = 0
  /\ kmpResult = Pending
  /\ base = NaN /\ mod = NaN
  /\ hash = JsNum(0) /\ hashI = 0 /\ hashSteps = <<>> /\ patternHash = NaN
  /\ h = NaN /\ textHash = NaN /\ rkI = 0 /\ rkMatches = <<>> /\ rkSteps = <<>>
  /\ hashComparisons = 0 /\ charComparisons = 0
  /\ rkResult = Pending
  /\ response = Pending

----------------------------------------------------------------------------
(* computeLPSWithSteps                                                     *)

\* steps.push(step) with step.lpsArray the array lps itself: every step
\* pushed so far then shows the table as it stands now
LpsPushShared(steps, step) ==
  [k \in 1..(Len(steps) + 1) |->
     [Append(steps, step)[k] EXCEPT !.lpsArray = step.lpsArray]]

\* steps.push(step) where step.lpsArray is [...lps], a copy
LpsPush(steps, step) == Append(steps, step)

\* const lps = new Array(m).fill(0); push lps_init; length = 0; i = 1
LpsEnter ==
  /\ lps' = [k \in 1..Len(pattern) |-> 0]
  /\ lpsSteps' = LpsPush(<<>>, [type |-> "lps_init",
                                lpsArray |-> [k \in 1..Len(pattern) |-> 0],
                                currentIndex |-> 0, prefixLength |-> 0])
  /\ length' = 0
  /\ lpsI' = 1
  /\ pc' = "lps_loop"

\* computeLPSWithSteps(pattern) called on its own
ComputeLPSCall ==
  /\ pc = "idle" /\ entry = "computeLPS" /\ lpsResult = Pending
  /\ LpsEnter
  /\ UNCHANGED <<inputVars, lpsResult, kmpVars, kmpResult, rkSide>>

\* the value written to lps[i] when pattern[i] === pattern[length]
LpsExtended(len) == len + 1

\* restarting from the empty prefix after a mismatch
LpsFallbackToZero(table, len) == 0

\* the prefix length retried after a mismatch with length !== 0
LpsFallbackLength(table, len) == At(table, len - 1)

LpsMatch ==
  /\ pc = "lps_loop" /\ lpsI < Len(pattern)
  /\ At(pattern, lpsI) = At(pattern, length)
  /\ length' = LpsExtended(length)
  /\ lps' = [lps EXCEPT ![lpsI + 1] = length']
  /\ lpsSteps' = LpsPush(lpsSteps, [type |-> "lps_match", lpsArray |-> lps',
                                    currentIndex |-> lpsI, prefixLength |-> length',
                                    compareIndexPattern |-> lpsI,
                                    compareIndexPrefix |-> length' - 1])
  /\ lpsI' = lpsI + 1
  /\ UNCHANGED <<inputVars, pc, lpsResult, kmpVars, kmpResult, rkSide>>

LpsFallback ==
  /\ pc = "lps_loop" /\ lpsI < Len(pattern)
  /\ At(pattern, lpsI) # At(pattern, length)
  /\ length # 0
  /\ length' = LpsFallbackLength(lps, length)
  /\ lpsSteps' = LpsPush(lpsSteps, [type |-> "lps_fallback", lpsArray |-> lps,
                                    currentIndex |-> lpsI, prefixLength |-> length',
                                    oldPrefixLength |-> length])
  /\ UNCHANGED <<inputVars, pc, lps, lpsI, lpsResult, kmpVars, kmpResult, rkSide>>

LpsZero ==
  /\ pc = "lps_loop" /\ lpsI < Len(pattern)
  /\ At(pattern, lpsI) # At(pattern, length)
  /\ length = 0
  /\ lps' = [lps EXCEPT ![lpsI + 1] = 0]
  /\ lpsSteps' = LpsPush(lpsSteps, [type |-> "lps_zero", lpsArray |-> lps',
                                    currentIndex |-> lpsI, prefixLength |-> 0])
  /\ lpsI' = lpsI + 1
  /\ UNCHANGED <<inputVars, pc, length, lpsResult, kmpVars, kmpResult, rkSide>>

\* loop exit: push lps_complete, return { lpsArray: lps, lpsSteps: steps }
LpsComplete ==
  /\ pc = "lps_loop" /\ ~(lpsI < Len(pattern))
  /\ lpsSteps' = LpsPush(lpsSteps, [type |-> "lps_complete", lpsArray |-> lps])
  /\ lpsResult' = [status |-> "ok", lpsArray |-> lps, lpsSteps |-> lpsSteps']
  /\ pc' = IF entry = "computeLPS" THEN "idle" ELSE "kmp_search"
  /\ UNCHANGED <<inputVars, lps, length, lpsI, kmpVars, kmpResult, rkSide>>

----------------------------------------------------------------------------
(* kmpAlgorithm and kmpSearchWithSteps                                     *)

\* validation without the length comparison
InputErrorNoLength(t, p) ==
  IF Falsy(t) \/ Falsy(p) THEN "Both text and pattern are required" ELSE "none"

\* the message kmpAlgorithm / rabinKarpAlgorithm throws, or "none"
InputError(t, p) ==
  IF Falsy(t) \/ Falsy(p) THEN "Both text and pattern are required"
  ELSE IF Len(p) > Len(t) THEN "Pattern length cannot exceed text length"
  ELSE "none"

\* kmpAlgorithm(text, pattern): validation, then computeLPSWithSteps
KmpAlgorithmCall ==
  /\ pc = "idle" /\ entry = "algorithms" /\ kmpResult = Pending
  /\ IF InputError(text, pattern) # "none"
     THEN /\ kmpResult' = Thrown(InputError(text, pattern))
          /\ UNCHANGED <<pc, lps, length, lpsI, lpsSteps>>
     ELSE /\ LpsEnter
          /\ UNCHANGED kmpResult
  /\ UNCHANGED <<inputVars, lpsResult, kmpVars, rkSide>>

\* kmpSearchWithSteps entry: i = 0, j = 0, push search_init
KmpSearchInit ==
  /\ pc = "kmp_search"
  /\ kmpI' = 0 /\ kmpJ' = 0 /\ kmpMatches' = <<>> /\ comparisons' = 0
  /\ kmpSteps' = <<[type |-> "search_init", textIndex |-> 0, patternIndex |-> 0,
                    patternOffset |-> 0, matches |-> <<>>, comparisons |-> 0]>>
  /\ pc' = "kmp_loop"
  /\ UNCHANGED <<inputVars, lpsVars, kmpResult, rkSide>>

\* keeping the pattern index where it is
KmpStay(table, j) == j

\* resuming one position past the border
KmpResumeNext(table, j) == At(table, j - 1) + 1

\* restarting the pattern from its first character
KmpRestart(table, j) == 0

\* j after a full match or a mismatch with j !== 0: lps[j - 1]
KmpResume(table, j) == At(table, j - 1)

\* moving the text index back to the character after the window start
KmpBacktrack(i, j) == i - j + 1

\* i after a mismatch with j !== 0: unchanged
KmpShiftTextIndex(i, j) == i

\* pattern[j] === text[i]; i++, j++; on j === m record the match
KmpMatch ==
  /\ pc = "kmp_loop" /\ kmpI < Len(text)
  /\ At(pattern, kmpJ) = At(text, kmpI)
  /\ comparisons' = comparisons + 1
  /\ kmpI' = kmpI + 1
  /\ LET matchStep == [type |-> "match", textIndex |-> kmpI, patternIndex |-> kmpJ,
                       patternOffset |-> kmpI - kmpJ, matches |-> kmpMatches,
                       comparisons |-> comparisons']
         matchIndex == (kmpI + 1) - (kmpJ + 1)
     IN  IF kmpJ + 1 = Len(pattern)
         THEN /\ kmpMatches' = Append(kmpMatches, matchIndex)
              /\ kmpSteps' = kmpSteps \o
                   <<matchStep,
                     [type |-> "pattern_found", textIndex |-> kmpI + 1,
                      patternIndex |-> kmpJ + 1, patternOffset |-> matchIndex,
                      matches |-> kmpMatches', comparisons |-> comparisons',
                      foundAt |-> matchIndex]>>
              /\ kmpJ' = KmpResume(lps, kmpJ + 1)
         ELSE /\ kmpSteps' = Append(kmpSteps, matchStep)
              /\ kmpJ' = kmpJ + 1
              /\ UNCHANGED kmpMatches
  /\ UNCHANGED <<inputVars, pc, lpsVars, kmpResult, rkSide>>

\* mismatch with j !== 0: j = lps[j - 1], i stays
KmpMismatchShift ==
  /\ pc = "kmp_loop" /\ kmpI < Len(text)
  /\ At(pattern, kmpJ) # At(text, kmpI)
  /\ kmpJ # 0
  /\ comparisons' = comparisons + 1
  /\ kmpSteps' = Append(kmpSteps,
       [type |-> "mismatch_shift", textIndex |-> kmpI, patternIndex |-> kmpJ,
        patternOffset |-> kmpI - kmpJ, matches |-> kmpMatches,
        comparisons |-> comparisons', lpsValue |-> At(lps, kmpJ - 1),
        shiftAmount |-> kmpJ - At(lps, kmpJ - 1)])
  /\ kmpJ' = KmpResume(lps, kmpJ)
  /\ kmpI' = KmpShiftTextIndex(kmpI, kmpJ)
  /\ UNCHANGED <<inputVars, pc, lpsVars, kmpMatches, kmpResult, rkSide>>

\* mismatch with j === 0: i++
KmpMismatchAdvance ==
  /\ pc = "kmp_loop" /\ kmpI < Len(text)
  /\ At(pattern, kmpJ) # At(text, kmpI)
  /\ kmpJ = 0
  /\ comparisons' = comparisons + 1
  /\ kmpSteps' = Append(kmpSteps,
       [type |-> "mismatch_advance", textIndex |-> kmpI, patternIndex |-> kmpJ,
        patternOffset |-> kmpI - kmpJ, matches |-> kmpMatches,
        comparisons |-> comparisons'])
  /\ kmpI' = kmpI + 1
  /\ UNCHANGED <<inputVars, pc, lpsVars, kmpJ, kmpMatches, kmpResult, rkSide>>

\* loop exit: push search_complete, return; kmpAlgorithm assembles its result
KmpSearchComplete ==
  /\ pc = "kmp_loop" /\ ~(kmpI < Len(text))
  /\ kmpSteps' = Append(kmpSteps,
       [type |-> "search_complete", matches |-> kmpMatches,
        comparisons |-> comparisons, totalMatches |-> Len(kmpMatches)])
  /\ kmpResult' = [status |-> "ok", lpsArray |-> lpsResult.lpsArray,
                   preprocessing |-> lpsResult.lpsSteps, matching |-> kmpSteps',
                   matches |-> kmpMatches, matchCount |-> Len(kmpMatches),
                   totalComparisons |-> comparisons]
  /\ pc' = "idle"
  /\ UNCHANGED <<inputVars, lpsVars, kmpI, kmpJ, kmpMatches, comparisons, rkSide>>

----------------------------------------------------------------------------
(* rabinKarpAlgorithm and computePatternHashWithSteps                      *)

\* a parameter with a default value: the default replaces undefined only
DefaultParam(arg, default) ==
  IF arg.kind = "undefined" THEN JsNum(default) ELSE arg.val

\* hash = (hash * base + charCode) % mod
HornerStep(hv, b, q, charCode) == JsRem(JsAdd(JsMul(hv, b), JsNum(charCode)), q)

\* computeHash(str, base, mod)
RECURSIVE computeHashFrom(_, _, _, _, _)
computeHashFrom(str, b, q, i, hv) ==
  IF i >= Len(str) THEN hv
  ELSE computeHashFrom(str, b, q, i + 1, HornerStep(hv, b, q, At(str, i)))

computeHash(str, b, q) == computeHashFrom(str, b, q, 0, JsNum(0))

\* rabinKarpAlgorithm(text, pattern, b, q): validation, then the entry of
\* computePatternHashWithSteps (hash = 0, push hash_init)
RabinKarpEnter(bArg, qArg) ==
  IF InputError(text, pattern) # "none"
  THEN /\ rkResult' = Thrown(InputError(text, pattern))
       /\ UNCHANGED <<pc, hashVars>>
  ELSE /\ base' = DefaultParam(bArg, DEFAULT_BASE)
       /\ mod' = DefaultParam(qArg, DEFAULT_MODULO)
       /\ hash' = JsNum(0)
       /\ hashI' = 0
       /\ hashSteps' = <<[type |-> "hash_init", base |-> base', mod |-> mod',
                          currentHash |-> JsNum(0)]>>
       /\ pc' = "hash_loop"
       /\ UNCHANGED <<patternHash, rkResult>>

\* rabinKarpAlgorithm called with the arguments of this run
RabinKarpAlgorithmCall ==
  /\ pc = "idle" /\ entry = "algorithms"
  /\ kmpResult # Pending /\ rkResult = Pending
  /\ RabinKarpEnter(baseArg, modArg)
  /\ UNCHANGED <<inputVars, kmpSide, rkVars, response>>

HashStep ==
  /\ pc = "hash_loop" /\ hashI < Len(pattern)
  /\ hash' = HornerStep(hash, base, mod, At(pattern, hashI))
  /\ hashSteps' = Append(hashSteps,
       [type |-> "hash_step", currentIndex |-> hashI,
        charCode |-> At(pattern, hashI), oldHash |-> hash, newHash |-> hash'])
  /\ hashI' = hashI + 1
  /\ UNCHANGED <<inputVars, pc, kmpSide, base, mod, patternHash, rkVars,
                 rkResult, response>>

\* loop exit: push hash_complete, return { hash, steps }
HashComplete ==
  /\ pc = "hash_loop" /\ ~(hashI < Len(pattern))
  /\ hashSteps' = Append(hashSteps, [type |-> "hash_complete", finalHash |-> hash])
  /\ patternHash' = hash
  /\ pc' = "rk_search"
  /\ UNCHANGED <<inputVars, kmpSide, base, mod, hash, hashI, rkVars,
                 rkResult, response>>

----------------------------------------------------------------------------
(* rabinKarpSearchWithSteps                                                *)

\* computeH(patternLength, base, mod)
RECURSIVE computeHFrom(_, _, _, _, _)
computeHFrom(patternLength, b, q, i, hv) ==
  IF i >= patternLength - 1 THEN hv
  ELSE computeHFrom(patternLength, b, q, i + 1, JsRem(JsMul(hv, b), q))

computeH(patternLength, b, q) == computeHFrom(patternLength, b, q, 0, JsNum(1))

\* ((base * (textHash - removedCharCode * h) + addedCharCode) % mod + mod) % mod
RollingHash(b, q, hValue, oldHash, removedCharCode, addedCharCode) ==
  JsRem(JsAdd(JsRem(JsAdd(JsMul(b, JsSub(oldHash,
                                         JsMul(JsNum(removedCharCode), hValue))),
                          JsNum(addedCharCode)),
                    q),
              q),
        q)

\* the verification loop: comparisons made up to and including the first
\* mismatch
RECURSIVE VerificationFrom(_, _, _, _)
VerificationFrom(t, p, i, j) ==
  IF j >= Len(p) THEN <<>>
  ELSE <<[textIndex |-> i + j, patternIndex |-> j,
          match |-> At(t, i + j) = At(p, j)]>>
       \o (IF At(t, i + j) = At(p, j) THEN VerificationFrom(t, p, i, j + 1)
           ELSE <<>>)

Verification(t, p, i) == VerificationFrom(t, p, i, 0)

\* trusting the hash comparison
VerifiedByHash(verificationSteps) == TRUE

\* the flag match after the verification loop
Verified(verificationSteps) ==
  \A k \in 1..Len(verificationSteps) : verificationSteps[k].match

\* h = computeH(...), hash of the first window, push search_init
RkSearchInit ==
  /\ pc = "rk_search"
  /\ h' = computeH(Len(pattern), base, mod)
  /\ textHash' = computeHash(SubSeq(text, 1, Len(pattern)), base, mod)
  /\ rkI' = 0 /\ rkMatches' = <<>>
  /\ hashComparisons' = 0 /\ charComparisons' = 0
  /\ rkSteps' = <<[type |-> "search_init", patternHash |-> patternHash,
                   initialTextHash |-> textHash', hValue |-> h',
                   windowStart |-> 0, windowEnd |-> Len(pattern) - 1]>>
  /\ pc' = "rk_window"
  /\ UNCHANGED <<inputVars, kmpSide, hashVars, rkResult, response>>

\* a loop that stops one window early
RkInLoopExclusive(i, n, m) == i < n - m

\* the loop condition of for (let i = 0; i <= n - m; i++)
RkInLoop(i, n, m) == i <= n - m

\* if (i < n - m): there is a next window to roll to
RkRollNeeded(i, n, m) == i < n - m

HashMatchStep ==
  [type |-> "hash_match", windowStart |-> rkI, windowEnd |-> rkI + Len(pattern) - 1,
   patternHash |-> patternHash, textHash |-> textHash,
   hashComparisons |-> hashComparisons + 1, charComparisons |-> charComparisons]

\* hash match confirmed by the character comparison
RkPatternFound ==
  /\ pc = "rk_window" /\ RkInLoop(rkI, Len(text), Len(pattern))
  /\ JsStrictEq(patternHash, textHash)
  /\ Verified(Verification(text, pattern, rkI))
  /\ hashComparisons' = hashComparisons + 1
  /\ charComparisons' = charComparisons + Len(Verification(text, pattern, rkI))
  /\ rkMatches' = Append(rkMatches, rkI)
  /\ rkSteps' = rkSteps \o
       <<HashMatchStep,
         [type |-> "pattern_found", windowStart |-> rkI,
          windowEnd |-> rkI + Len(pattern) - 1,
          patternHash |-> patternHash, textHash |-> textHash,
          matches |-> rkMatches', hashComparisons |-> hashComparisons',
          charComparisons |-> charComparisons',
          verification |-> Verification(text, pattern, rkI)]>>
  /\ pc' = "rk_roll"
  /\ UNCHANGED <<inputVars, kmpSide, hashVars, h, textHash, rkI, rkResult, response>>

\* hash match refuted by the character comparison
RkSpuriousHit ==
  /\ pc = "rk_window" /\ RkInLoop(rkI, Len(text), Len(pattern))
  /\ JsStrictEq(patternHash, textHash)
  /\ ~Verified(Verification(text, pattern, rkI))
  /\ hashComparisons' = hashComparisons + 1
  /\ charComparisons' = charComparisons + Len(Verification(text, pattern, rkI))
  /\ rkSteps' = rkSteps \o
       <<HashMatchStep,
         [type |-> "spurious_hit", windowStart |-> rkI,
          windowEnd |-> rkI + Len(pattern) - 1,
          patternHash |-> patternHash, textHash |-> textHash,
          hashComparisons |-> hashComparisons',
          charComparisons |-> charComparisons',
          verification |-> Verification(text, pattern, rkI)]>>
  /\ pc' = "rk_roll"
  /\ UNCHANGED <<inputVars, kmpSide, hashVars, h, textHash, rkI, rkMatches,
                 rkResult, response>>

RkHashMismatch ==
  /\ pc = "rk_window" /\ RkInLoop(rkI, Len(text), Len(pattern))
  /\ ~JsStrictEq(patternHash, textHash)
  /\ hashComparisons' = hashComparisons + 1
  /\ rkSteps' = Append(rkSteps,
       [type |-> "hash_mismatch", windowStart |-> rkI,
        windowEnd |-> rkI + Len(pattern) - 1,
        patternHash |-> patternHash, textHash |-> textHash,
        hashComparisons |-> hashComparisons', charComparisons |-> charComparisons])
  /\ pc' = "rk_roll"
  /\ UNCHANGED <<inputVars, kmpSide, hashVars, h, textHash, rkI, rkMatches,
                 charComparisons, rkResult, response>>

\* i < n - m: roll the hash to the next window, push rolling_hash, i++
RkRollingHash ==
  /\ pc = "rk_roll" /\ RkRollNeeded(rkI, Len(text), Len(pattern))
  /\ textHash' = RollingHash(base, mod, h, textHash, At(text, rkI),
                             At(text, rkI + Len(pattern)))
  /\ rkSteps' = Append(rkSteps,
       [type |-> "rolling_hash", oldWindowStart |-> rkI, newWindowStart |-> rkI + 1,
        removedCharCode |-> At(text, rkI),
        addedCharCode |-> At(text, rkI + Len(pattern)),
        oldHash |-> textHash, newHash |-> textHash', hValue |-> h])
  /\ rkI' = rkI + 1
  /\ pc' = "rk_window"
  /\ UNCHANGED <<inputVars, kmpSide, hashVars, h, rkMatches, hashComparisons,
                 charComparisons, rkResult, response>>

\* the last window: nothing to roll, i++
RkLastWindow ==
  /\ pc = "rk_roll" /\ ~(RkRollNeeded(rkI, Len(text), Len(pattern)))
  /\ rkI' = rkI + 1
  /\ pc' = "rk_window"
  /\ UNCHANGED <<inputVars, kmpSide, hashVars, h, textHash, rkMatches, rkSteps,
                 hashComparisons, charComparisons, rkResult, response>>

\* loop exit: push search_complete, return; rabinKarpAlgorithm assembles its
\* result and, under the route, res.json({ success: true, data: result })
RkSearchComplete ==
  /\ pc = "rk_window" /\ ~(RkInLoop(rkI, Len(text), Len(pattern)))
  /\ rkSteps' = Append(rkSteps,
       [type |-> "search_complete", matches |-> rkMatches,
        hashComparisons |-> hashComparisons, charComparisons |-> charComparisons,
        totalMatches |-> Len(rkMatches)])
  /\ rkResult' = [status |-> "ok", base |-> base, modulo |-> mod,
                  patternHash |-> patternHash,
                  preprocessing |-> hashSteps, matching |-> rkSteps',
                  matches |-> rkMatches, matchCount |-> Len(rkMatches),
                  hashComparisons |-> hashComparisons,
                  charComparisons |-> charComparisons]
  /\ response' = IF entry = "route" THEN [status |-> 200, success |-> TRUE]
                 ELSE response
  /\ pc' = "idle"
  /\ UNCHANGED <<inputVars, kmpSide, hashVars, h, textHash, rkI, rkMatches,
                 hashComparisons, charComparisons>>

----------------------------------------------------------------------------
(* POST /api/rabin-karp/execute                                            *)

BadRequest(msg) == [status |-> 400, error |-> "Invalid input", message |-> msg]

\* the 400 message of the route's validation, or "none"
RouteError(t, p) ==
  IF Falsy(t) THEN "Text is required and must be a string"
  ELSE IF Falsy(p) THEN "Pattern is required and must be a string"
  ELSE IF Len(p) > Len(t) THEN "Pattern length cannot exceed text length"
  ELSE "none"

\* arg && Number.isInteger(arg) && arg > 0 ? arg : default
RouteParam(arg, default) ==
  IF /\ arg.kind # "undefined"
     /\ ~(arg.kind = "integer" /\ arg.val = JsNum(0))
     /\ arg.kind = "integer"
     /\ JsLess(JsNum(0), arg.val)
  THEN arg
  ELSE IntArg(default)

RouteExecute ==
  /\ pc = "idle" /\ entry = "route" /\ response = Pending
  /\ IF RouteError(text, pattern) # "none"
     THEN /\ response' = BadRequest(RouteError(text, pattern))
          /\ UNCHANGED <<pc, hashVars, rkResult>>
     ELSE /\ RabinKarpEnter(RouteParam(baseArg, 256), RouteParam(modArg, 101))
          /\ response' = IF rkResult' = Pending THEN response
                         ELSE [status |-> 500, error |-> "Execution error",
                               message |-> rkResult'.message]
  /\ UNCHANGED <<inputVars, kmpSide, rkVars>>

----------------------------------------------------------------------------

Next ==
  \/ ComputeLPSCall
  \/ LpsMatch
  \/ LpsFallback
  \/ LpsZero
  \/ LpsComplete
  \/ KmpAlgorithmCall
  \/ KmpSearchInit
  \/ KmpMatch
  \/ KmpMismatchShift
  \/ KmpMismatchAdvance
  \/ KmpSearchComplete
  \/ RabinKarpAlgorithmCall
  \/ HashStep
  \/ HashComplete
  \/ RkSearchInit
  \/ RkPatternFound
  \/ RkSpuriousHit
  \/ RkHashMismatch
  \/ RkRollingHash
  \/ RkLastWindow
  \/ RkSearchComplete
  \/ RouteExecute

Spec == Init /\ [][Next]_vars

\* one iteration of the while loop of computeLPSWithSteps, or its return
LpsLoopStep == LpsMatch \/ LpsFallback \/ LpsZero \/ LpsComplete

\* one iteration of the while loop of kmpSearchWithSteps, or its return
KmpLoopStep ==
  KmpMatch \/ KmpMismatchShift \/ KmpMismatchAdvance \/ KmpSearchComplete

\* both loops run synchronously inside one call: an iteration that can run
\* does run
FairSpec == Spec /\ WF_vars(LpsLoopStep) /\ WF_vars(KmpLoopStep)

----------------------------------------------------------------------------
(* Reference definitions                                                   *)

\* p occurs in t at zero-based offset s
OccursAt(t, p, s) == \A k \in 1..Len(p) : t[s + k] = p[k]

\* offsets of all occurrences, in increasing order, by scanning every offset
RECURSIVE BruteForceFrom(_, _, _)
BruteForceFrom(t, p, s) ==
  IF s > Len(t) - Len(p) THEN <<>>
  ELSE (IF OccursAt(t, p, s) THEN <<s>> ELSE <<>>) \o BruteForceFrom(t, p, s + 1)

BruteForce(t, p) == BruteForceFrom(t, p, 0)

StrictlyIncreasing(seq) == \A k \in 1..(Len(seq) - 1) : seq[k] < seq[k + 1]

\* the first k characters of p[0..i] are also its last k
IsBorder(p, i, k) == \A t \in 1..k : p[t] = p[i + 1 - k + t]

\* length of the longest proper prefix of p[0..i] that is also its suffix
LongestBorder(p, i) ==
  CHOOSE k \in 0..i :
    /\ IsBorder(p, i, k)
    /\ \A k2 \in (k + 1)..i : ~IsBorder(p, i, k2)

\* text or pattern empty or missing, or the pattern longer than the text
InvalidStrings ==
  \/ text = Undefined
  \/ pattern = Undefined
  \/ Len(text) = 0
  \/ Len(pattern) = 0
  \/ Len(pattern) > Len(text)

----------------------------------------------------------------------------
(* Claims                                                                  *)

\* C1: for non-empty text and pattern with |pattern| <= |text|, the match
\* list of the KMP search run with the table of computeLPSWithSteps is the
\* strictly increasing list of all offsets where the pattern occurs, as a
\* brute-force scan finds them, overlapping occurrences included.
C1_KmpEqualsBruteForce ==
  kmpResult.status = "ok" =>
    /\ kmpResult.matches = BruteForce(text, pattern)
    /\ StrictlyIncreasing(kmpResult.matches)
    /\ kmpSteps[Len(kmpSteps)].matches = BruteForce(text, pattern)

C1_WitnessOverlap ==
  /\ kmpResult.status = "ok"
  /\ text = <<65, 65, 65, 65>>
  /\ pattern = <<65, 65>>
  /\ kmpResult.matches = <<0, 1, 2>>

\* C5: for a non-empty pattern the table has one entry per position,
\* table[0] = 0, and table[i] is the length of the longest proper prefix of
\* pattern[0..i] that is also a suffix of it (so table[i] <= i).
C5_LpsIsLongestBorder ==
  (lpsResult.status = "ok" /\ pattern # <<>>) =>
    /\ Len(lpsResult.lpsArray) = Len(pattern)
    /\ lpsResult.lpsArray[1] = 0
    /\ \A i \in 0..(Len(pattern) - 1) :
         /\ lpsResult.lpsArray[i + 1] = LongestBorder(pattern, i)
         /\ lpsResult.lpsArray[i + 1] <= i

C5_Witness ==
  /\ lpsResult.status = "ok"
  /\ pattern = <<65, 65, 66, 65, 65, 65>>
  /\ lpsResult.lpsArray = <<0, 1, 0, 1, 2, 2>>
  /\ \E k \in 1..Len(lpsSteps) :
       /\ lpsSteps[k].type = "lps_fallback"
       /\ lpsSteps[k].oldPrefixLength = 2
       /\ lpsSteps[k].prefixLength = 1

\* textIndex never decreases along the steps that carry one
KmpStepsMonotone(steps) ==
  \A a, b \in 1..Len(steps) :
    (a < b /\ steps[a].type # "search_complete" /\ steps[b].type # "search_complete")
      => steps[a].textIndex <= steps[b].textIndex

\* C6: in kmpSearchWithSteps the text index i never decreases across a loop
\* iteration; a mismatch_shift iteration leaves i unchanged and changes only
\* j; textIndex is non-decreasing along the emitted matching steps.
C6_TextIndexNeverDecreases ==
  [][/\ pc = "kmp_loop" => kmpI' >= kmpI
     /\ KmpMismatchShift => (kmpI' = kmpI /\ kmpJ' # kmpJ /\ kmpMatches' = kmpMatches)
     /\ KmpStepsMonotone(kmpSteps')]_vars

C6_Witness ==
  /\ kmpResult.status = "ok"
  /\ \E k \in 1..Len(kmpSteps) :
       /\ kmpSteps[k].type = "mismatch_shift"
       /\ kmpSteps[k].patternIndex = 2
       /\ kmpSteps[k].lpsValue = 1

\* the table a step emitted at position i with value v written there shows
LpsSnapshotAt(table, i, v, snapshot) ==
  /\ Len(snapshot) = Len(table)
  /\ \A k \in 0..(Len(table) - 1) :
       snapshot[k + 1] = IF k < i THEN table[k + 1] ELSE IF k = i THEN v ELSE 0

\* C10: every step of computeLPSWithSteps carries the table as it stood when
\* the step was emitted, whatever is written later: for a step emitted at
\* position i, lpsArray[k] is the final table[k] for k < i and 0 for k > i,
\* lpsArray[i] is the value just written (lps_match, lps_zero) or 0
\* (lps_fallback); lps_init carries zeros and lps_complete the final table.
C10_StepsCarrySnapshots ==
  \A s \in 1..Len(lpsSteps) :
    LET step == lpsSteps[s] IN
    CASE step.type = "lps_init" ->
           step.lpsArray = [k \in 1..Len(pattern) |-> 0]
      [] step.type = "lps_match" ->
           LpsSnapshotAt(lps, step.currentIndex, step.prefixLength, step.lpsArray)
           /\ lps[step.currentIndex + 1] = step.prefixLength
      [] step.type = "lps_zero" ->
           LpsSnapshotAt(lps, step.currentIndex, 0, step.lpsArray)
      [] step.type = "lps_fallback" ->
           LpsSnapshotAt(lps, step.currentIndex, 0, step.lpsArray)
      [] step.type = "lps_complete" ->
           step.lpsArray = lps /\ lpsResult.lpsArray = lps /\ s = Len(lpsSteps)

C10_Witness ==
  /\ lpsResult.status = "ok"
  /\ pattern = <<65, 66, 65, 65>>
  /\ lpsSteps[2].type = "lps_zero" /\ lpsSteps[2].lpsArray = <<0, 0, 0, 0>>
  /\ lpsSteps[3].type = "lps_match" /\ lpsSteps[3].lpsArray = <<0, 0, 1, 0>>
  /\ lpsSteps[4].type = "lps_fallback" /\ lpsSteps[4].lpsArray = <<0, 0, 1, 0>>
  /\ lpsSteps[5].type = "lps_match" /\ lpsSteps[5].lpsArray = <<0, 0, 1, 1>>
  /\ lpsSteps[6].type = "lps_complete"

\* a positive integer Number
IsPositiveInteger(x) == ~x.nan /\ JsLess(JsNum(0), x)

\* the window of pattern length at zero-based offset w
Window(w) == SubSeq(text, w + 1, w + Len(pattern))

\* C2: for non-empty text and pattern with |pattern| <= |text| and every
\* positive integer base and modulus, rabinKarpAlgorithm returns the same
\* matches as kmpAlgorithm.
C2_RabinKarpEqualsKmp ==
  (/\ kmpResult.status = "ok" /\ rkResult.status = "ok"
   /\ IsPositiveInteger(base) /\ IsPositiveInteger(mod))
    => rkResult.matches = kmpResult.matches

\* C3: for positive base and modulus, the hash after each rolling update
\* (newHash of the rolling_hash step with newWindowStart = w) equals the
\* Horner hash of text[w..w+m-1] computed from scratch, and lies in
\* [0, modulus).
C3_RollingHashEqualsWindowHash ==
  (IsPositiveInteger(base) /\ IsPositiveInteger(mod)) =>
    \A k \in 1..Len(rkSteps) :
      rkSteps[k].type = "rolling_hash" =>
        /\ rkSteps[k].newHash = computeHash(Window(rkSteps[k].newWindowStart), base, mod)
        /\ ~rkSteps[k].newHash.nan /\ ~rkSteps[k].newHash.neg
        /\ JsLess(rkSteps[k].newHash, mod)

\* offset w is in no matches list: the running one, the returned one, or
\* a snapshot carried by a step
NowhereAMatch(w) ==
  /\ \A k \in 1..Len(rkMatches) : rkMatches[k] # w
  /\ rkResult.status = "ok" =>
       \A k \in 1..Len(rkResult.matches) : rkResult.matches[k] # w
  /\ \A k \in 1..Len(rkSteps) :
       rkSteps[k].type \in {"pattern_found", "search_complete"} =>
         \A j \in 1..Len(rkSteps[k].matches) : rkSteps[k].matches[j] # w

\* C4: every window whose hash equals patternHash while its characters
\* differ from the pattern produces a spurious_hit step for that window and
\* is never appended to matches (not in the returned list, not in any
\* snapshot); a pattern_found step is emitted only when all m characters
\* are equal.
C4_SpuriousHitsAreNotMatches ==
  /\ (/\ pc = "rk_roll"
      /\ JsStrictEq(patternHash, textHash)
      /\ ~OccursAt(text, pattern, rkI))
       => /\ rkSteps[Len(rkSteps)].type = "spurious_hit"
          /\ rkSteps[Len(rkSteps)].windowStart = rkI
  /\ \A k \in 1..Len(rkSteps) :
       LET step == rkSteps[k] IN
       /\ (/\ step.type \in {"hash_match", "hash_mismatch"}
           /\ JsStrictEq(step.patternHash, step.textHash)
           /\ ~OccursAt(text, pattern, step.windowStart))
            => /\ k < Len(rkSteps)
               /\ rkSteps[k + 1].type = "spurious_hit"
               /\ rkSteps[k + 1].windowStart = step.windowStart
               /\ NowhereAMatch(step.windowStart)
       /\ step.type = "spurious_hit" =>
            /\ ~OccursAt(text, pattern, step.windowStart)
            /\ NowhereAMatch(step.windowStart)
       /\ step.type = "pattern_found" =>
            /\ OccursAt(text, pattern, step.windowStart)
            /\ Len(step.verification) = Len(pattern)
            /\ \A j \in 1..Len(step.verification) : step.verification[j].match

C4_Witness ==
  /\ rkResult.status = "ok"
  /\ text = <<65, 66, 65, 66>> /\ pattern = <<65, 66>>
  /\ rkResult.matches = <<0, 2>>
  /\ \E k \in 1..Len(rkSteps) :
       /\ rkSteps[k].type = "spurious_hit"
       /\ rkSteps[k].windowStart = 1
       /\ Len(rkSteps[k].verification) = 1

\* C7: for kmpAlgorithm and rabinKarpAlgorithm, an empty or missing text or
\* pattern, or a pattern longer than the text, gives an error outcome raised
\* before any preprocessing or matching: no step is emitted and nothing is
\* computed.
C7_InvalidStringsRejectedFirst ==
  (entry = "algorithms" /\ InvalidStrings) =>
    /\ pc = "idle"
    /\ lpsSteps = <<>> /\ kmpSteps = <<>> /\ hashSteps = <<>> /\ rkSteps = <<>>
    /\ lpsResult = Pending
    /\ kmpMatches = <<>> /\ rkMatches = <<>>
    /\ kmpResult.status \in {"pending", "error"}
    /\ rkResult.status \in {"pending", "error"}
    /\ rkResult # Pending => kmpResult.status = "error"

C7_Witness ==
  /\ entry = "algorithms"
  /\ text = <<65>> /\ pattern = <<65, 66>>
  /\ kmpResult.status = "error" /\ rkResult.status = "error"
  /\ kmpResult.message = "Pattern length cannot exceed text length"

\* an argument that is a number but not a positive integer
NotPositiveInteger(arg) ==
  \/ arg.kind = "fraction"
  \/ arg.kind = "integer" /\ ~JsLess(JsNum(0), arg.val)

\* C8: the rolling-hash pipeline, called directly or through the route,
\* fails with an input error whenever base or modulus is zero, negative or
\* not an integer, before any hash step is emitted; it computes neither with
\* such parameters nor with other values put in their place.
C8_BadHashParametersRejected ==
  (/\ entry \in {"algorithms", "route"}
   /\ ~InvalidStrings
   /\ NotPositiveInteger(baseArg) \/ NotPositiveInteger(modArg))
    => /\ hashSteps = <<>> /\ rkSteps = <<>>
       /\ rkResult.status \in {"pending", "error"}
       /\ response = Pending \/ response.status = 400

\* C9: computeLPSWithSteps called with an empty pattern fails with an input
\* error and returns no table and no steps.
C9_EmptyPatternRejected ==
  (entry = "computeLPS" /\ pattern = <<>>) =>
    /\ lpsSteps = <<>>
    /\ lpsResult.status \in {"pending", "error"}

\* b^e as an exact natural number
RECURSIVE NPower(_, _)
NPower(b, e) == IF e = 0 THEN <<1>> ELSE NMul(b, NPower(b, e - 1))

\* sum over k >= from of code(p[k]) * b^(m-1-k), as an exact natural number
RECURSIVE PolynomialFrom(_, _, _)
PolynomialFrom(p, b, from) ==
  IF from >= Len(p) THEN <<>>
  ELSE NAdd(NMul(NFromInt(At(p, from)), NPower(b, Len(p) - 1 - from)),
            PolynomialFrom(p, b, from + 1))

\* (sum over k of code(p[k]) * b^(m-1-k)) mod q in exact arithmetic
PolynomialHash(p, b, q) == JsSigned(FALSE, NMod(PolynomialFrom(p, b.mag, 0), q.mag))

\* (old * b + charCode) mod q in exact arithmetic
ExactHorner(old, b, q, charCode) ==
  JsSigned(FALSE, NMod(NAdd(NMul(old.mag, b.mag), NFromInt(charCode)), q.mag))

\* computePatternHashWithSteps has returned
HashReturned == pc \in {"rk_search", "rk_window", "rk_roll"} \/ rkResult.status = "ok"

\* C11: for a non-empty pattern of length m and positive base and modulus,
\* computePatternHashWithSteps returns (sum of code(pattern[k]) *
\* base^(m-1-k)) mod modulus, and its trace is hash_init, then m hash_step
\* records for positions 0..m-1, each with oldHash the previous newHash (0
\* for the first) and newHash = (oldHash * base + charCode) mod modulus,
\* then hash_complete whose finalHash is the returned hash.
C11_PatternHashIsPolynomial ==
  (HashReturned /\ IsPositiveInteger(base) /\ IsPositiveInteger(mod)) =>
    /\ patternHash = PolynomialHash(pattern, base, mod)
    /\ Len(hashSteps) = Len(pattern) + 2
    /\ hashSteps[1].type = "hash_init"
    /\ \A k \in 0..(Len(pattern) - 1) :
         LET step == hashSteps[k + 2] IN
         /\ step.type = "hash_step"
         /\ step.currentIndex = k
         /\ step.charCode = At(pattern, k)
         /\ step.oldHash = IF k = 0 THEN JsNum(0) ELSE hashSteps[k + 1].newHash
         /\ step.newHash = ExactHorner(step.oldHash, base, mod, step.charCode)
    /\ hashSteps[Len(pattern) + 2].type = "hash_complete"
    /\ hashSteps[Len(pattern) + 2].finalHash = patternHash

\* steps[k..] is the trace of the windows w, w+1, ..., n-m followed by
\* search_complete
RECURSIVE WindowsShape(_, _, _, _)
WindowsShape(steps, k, w, last) ==
  IF w > last
  THEN k = Len(steps) /\ steps[k].type = "search_complete"
  ELSE
    /\ k <= Len(steps)
    /\ steps[k].type \in {"hash_match", "hash_mismatch"}
    /\ steps[k].windowStart = w
    /\ LET verdicts == IF steps[k].type = "hash_match" THEN 1 ELSE 0
           rolls == IF w < last THEN 1 ELSE 0
       IN  /\ k + verdicts + rolls <= Len(steps)
           /\ verdicts = 1 =>
                /\ steps[k + 1].type \in {"pattern_found", "spurious_hit"}
                /\ steps[k + 1].windowStart = w
           /\ rolls = 1 =>
                /\ steps[k + verdicts + 1].type = "rolling_hash"
                /\ steps[k + verdicts + 1].oldWindowStart = w
           /\ WindowsShape(steps, k + verdicts + rolls + 1, w + 1, last)

StepsOfType(steps, type) == {k \in 1..Len(steps) : steps[k].type = type}

\* C12: the matching trace of rabinKarpSearchWithSteps is search_init; for
\* each window w = 0..n-m in order one hash_mismatch or hash_match, a
\* hash_match directly followed by one pattern_found or spurious_hit for w;
\* then a rolling_hash step with oldWindowStart = w exactly when w < n-m;
\* finally search_complete.  So hashComparisons = n-m+1, there are n-m
\* rolling_hash steps, and search_complete reports the returned match count
\* and both counters.
C12_RabinKarpTraceShape ==
  rkResult.status = "ok" =>
    LET steps == rkResult.matching
        last == Len(text) - Len(pattern)
        complete == steps[Len(steps)]
    IN  /\ steps[1].type = "search_init"
        /\ WindowsShape(steps, 2, 0, last)
        /\ rkResult.hashComparisons = last + 1
        /\ Cardinality(StepsOfType(steps, "rolling_hash")) = last
        /\ Cardinality(StepsOfType(steps, "search_init")) = 1
        /\ Cardinality(StepsOfType(steps, "search_complete")) = 1
        /\ complete.totalMatches = rkResult.matchCount
        /\ complete.totalMatches = Len(rkResult.matches)
        /\ complete.matches = rkResult.matches
        /\ complete.hashComparisons = rkResult.hashComparisons
        /\ complete.charComparisons = rkResult.charComparisons

C12_Witness ==
  /\ rkResult.status = "ok"
  /\ text = <<65, 65, 66, 65>> /\ pattern = <<65, 66>>
  /\ rkResult.matches = <<1>>
  /\ rkResult.hashComparisons = 3
  /\ rkResult.charComparisons = 3
  /\ Len(rkResult.matching) = 9
  /\ rkResult.matching[2].type = "hash_mismatch"
  /\ rkResult.matching[5].type = "pattern_found"
  /\ rkResult.matching[8].type = "spurious_hit"

\* C13: both fallback loops terminate: in computeLPSWithSteps an iteration
\* that does not advance i strictly decreases length, in kmpSearchWithSteps
\* an iteration that does not advance i strictly decreases j, so every run
\* eventually emits lps_complete / search_complete; the scanner's comparison
\* counter never exceeds 2 * |text|.
C13_FallbackLoopsTerminate ==
  /\ [][/\ (pc = "lps_loop" /\ pc' = "lps_loop" /\ lpsI' = lpsI)
             => (length' < length /\ length' >= 0)
        /\ (pc = "kmp_loop" /\ pc' = "kmp_loop" /\ kmpI' = kmpI)
             => (kmpJ' < kmpJ /\ kmpJ' >= 0)]_vars
  /\ [](pc = "kmp_loop" \/ kmpResult.status = "ok"
          => comparisons <= 2 * Len(text))
  /\ (pc = "lps_loop") ~>
       (lpsResult.status = "ok"
        /\ lpsSteps[Len(lpsSteps)].type = "lps_complete")
  /\ (pc = "kmp_loop") ~>
       (kmpResult.status = "ok"
        /\ kmpSteps[Len(kmpSteps)].type = "search_complete")

C13_Witness ==
  /\ kmpResult.status = "ok"
  /\ text = <<65, 65, 65, 66>> /\ pattern = <<65, 65, 66>>
  /\ kmpResult.matches = <<1>>
  /\ kmpResult.totalComparisons > Len(text)
  /\ \E k \in 1..Len(lpsSteps) : lpsSteps[k].type = "lps_fallback"
  /\ \E k \in 1..Len(kmpSteps) : kmpSteps[k].type = "mismatch_shift"

\* k is an index the array seq has: a read of seq[k] is not undefined
InBounds(seq, k) == k >= 0 /\ k < Len(seq)

\* C14: at the head of every iteration of the kmpSearchWithSteps loop, with
\* the lps table computeLPSWithSteps built for the same non-empty pattern,
\* 0 <= j < m, j <= i and pattern[0..j-1] = text[i-j..i-1]; so the reads of
\* pattern[j] and lps[j-1] made by the iteration are in bounds and every
\* recorded match offset lies in 0..n-m
C14_KmpLoopInvariant ==
  pc = "kmp_loop" =>
    /\ Len(pattern) > 0
    /\ Len(lps) = Len(pattern)
    /\ \A k \in 1..Len(pattern) : lps[k] = LongestBorder(pattern, k - 1)
    /\ 0 <= kmpJ /\ kmpJ < Len(pattern)
    /\ kmpJ <= kmpI /\ kmpI <= Len(text)
    /\ \A t \in 1..kmpJ : pattern[t] = text[kmpI - kmpJ + t]
    /\ kmpI < Len(text) =>
          /\ InBounds(pattern, kmpJ)
          /\ InBounds(text, kmpI)
          /\ (pattern[kmpJ + 1] # text[kmpI + 1] /\ kmpJ # 0)
               => InBounds(lps, kmpJ - 1)
          /\ (pattern[kmpJ + 1] = text[kmpI + 1] /\ kmpJ + 1 = Len(pattern))
               => InBounds(lps, kmpJ)
    /\ \A k \in 1..Len(kmpMatches) :
          /\ kmpMatches[k] >= 0
          /\ kmpMatches[k] <= Len(text) - Len(pattern)

\* the loop head is reached with a pattern prefix still matched, after a
\* match was recorded and a mismatch has just fallen back through the table
C14_Witness ==
  /\ pc = "kmp_loop"
  /\ kmpJ >= 1 /\ kmpI < Len(text)
  /\ Len(kmpMatches) >= 1
  /\ kmpSteps[Len(kmpSteps)].type = "mismatch_shift"

====
